---- MODULE Spec2Model ----
(***************************************************************************)
(* The social-network API of src/index.js: two mongoose collections (User, *)
(* Thought) and the Express handlers over them.                            *)
(*                                                                         *)
(* Every store access of a handler (one awaited mongoose call) is one      *)
(* atomic step, deleteMany included.  A handler with two awaited calls is  *)
(* suspended in req between them, so the writes of concurrent requests     *)
(* interleave; it responds in the step of its last access.  A store access *)
(* that throws has no effect on the store.                                 *)
(***************************************************************************)
EXTENDS Integers, Sequences, FiniteSets, TLC

\* ---- bounds of the model -------------------------------------------------
MaxUsers == 2        \* User documents ever inserted
MaxThoughts == 2     \* Thought documents ever inserted
MaxInFlight == 2     \* handlers suspended between their two store accesses

\* ---- request inputs ------------------------------------------------------
\* A req.params id is either a well-formed ObjectId (one the store generated:
\* a present document's, or a deleted one's) or a string that is no ObjectId.
BadId == -1

\* thoughtSchema: thoughtText minlength / maxlength
MinText == 1
MaxText == 280

Opt(S) == {{}} \cup {{x} : x \in S}
Has(f) == f # {}
Val(f) == CHOOSE x \in f : TRUE

Range(s) == {s[i] : i \in 1..Len(s)}
Count(s, x) == Cardinality({i \in 1..Len(s) : s[i] = x})

\* Strings are sequences of characters, so that trimming is computed.
RawNames == {<<"a">>, <<"a", " ">>, <<"b">>, <<" ">>}
ThoughtNames == {<<"a">>, <<"b">>}
RawEmails == {"a@x.io", "b@x.io", "nomail"}
TextLens == {0, 1, 281}

\* userSchema username: trim
RECURSIVE TrimLeft(_)
TrimLeft(s) == IF s # << >> /\ Head(s) = " " THEN TrimLeft(Tail(s)) ELSE s

RECURSIVE TrimRight(_)
TrimRight(s) ==
  IF s # << >> /\ s[Len(s)] = " " THEN TrimRight(SubSeq(s, 1, Len(s) - 1)) ELSE s

Trim(s) == TrimRight(TrimLeft(s))

\* userSchema email: match /^[a-zA-Z0-9._%+-]+@[a-zA-Z0-9.-]+\.[a-zA-Z]{2,}$/
\* over the addresses the requests carry
EmailMatch(e) == e \in {"a@x.io", "b@x.io"}

\* thoughtSchema thoughtText: required, minlength, maxlength (by its length)
TextValid(n) == n >= MinText /\ n <= MaxText

VARIABLES
  users,        \* User collection: _id -> document
  thoughts,     \* Thought collection: _id -> document
  userIds,      \* User _ids generated so far
  thoughtIds,   \* Thought _ids generated so far
  req,          \* handlers suspended at their second await
  resp          \* the response sent by the last step, if it sent one

vars == <<users, thoughts, userIds, thoughtIds, req, resp>>

NoResp == [op |-> "none", status |-> 0]

Present(id) == id \in DOMAIN users
PresentThought(id) == id \in DOMAIN thoughts

\* ids a client can put in a URL
UserIdParams == (1..userIds) \cup {BadId}
ThoughtIdParams == (1..thoughtIds) \cup {BadId}

\* Bodies of POST/PUT /api/users: req.body is handed to mongoose as it is, so
\* it may set any path of userSchema.
UserBody(n, e, t, f) ==
  [username |-> n, email |-> e, thoughts |-> t, friends |-> f, _id |-> {}]

\* any combination of username and email, well-formed or not
IdentityBodies == {UserBody(n, e, {}, {}) : n \in Opt(RawNames), e \in Opt(RawEmails)}

\* the two sign-ups the friendship and thought specifications use
SignUpBodies ==
  {UserBody({<<"a">>}, {"a@x.io"}, {}, {}), UserBody({<<"b">>}, {"b@x.io"}, {}, {})}

\* a sign-up that names its own _id: an ObjectId the store generated earlier, or
\* a string that is no ObjectId
IdBodies ==
  {[UserBody({n}, {e}, {}, {}) EXCEPT !._id = {i}] :
     n \in {<<"a">>, <<"b">>}, e \in {"a@x.io", "b@x.io"}, i \in UserIdParams}

\* a PUT that renames the user
RenameBodies == {UserBody({n}, {}, {}, {}) : n \in {<<"a">>, <<"b">>}}

\* a PUT that overwrites the friends array (here with a repeated id)
FriendsBodies == {UserBody({}, {}, {}, {<<f, f>>}) : f \in DOMAIN users}

\* a PUT that overwrites the thoughts array (here with the empty array)
ThoughtsBodies == {UserBody({}, {}, {<< >>}, {})}

\* Bodies of POST/PUT /api/thoughts.
ThoughtBody(x, n) == [thoughtText |-> x, username |-> n, _id |-> {}]

ThoughtBodies ==
  {ThoughtBody({1}, {n}) : n \in ThoughtNames}
  \cup {ThoughtBody({}, {n}) : n \in ThoughtNames}
  \cup {ThoughtBody({x}, {}) : x \in TextLens}

\* a POST /api/thoughts that names its own _id: an ObjectId the store generated
\* earlier, or a string that is no ObjectId
ThoughtIdBodies ==
  {[ThoughtBody({1}, {n}) EXCEPT !._id = {i}] : n \in ThoughtNames, i \in ThoughtIdParams}

\* ---- array update operators of the store -----------------------------------
AddToSet_Push(arr, x) == Append(arr, x)
AddToSet(arr, x) == IF x \in Range(arr) THEN arr ELSE Append(arr, x)
Pull_OrLast(arr, x) ==
  IF x \in Range(arr) \/ arr = << >> THEN SelectSeq(arr, LAMBDA y : y # x)
  ELSE SubSeq(arr, 1, Len(arr) - 1)
Pull(arr, x) == SelectSeq(arr, LAMBDA y : y # x)
Push_Twice(arr, x) == Append(Append(arr, x), x)
Push_Overwrite(arr, x) == <<x>>
Push(arr, x) == Append(arr, x)

Without(f, id) == [k \in DOMAIN f \ {id} |-> f[k]]
With(f, id, doc) == [k \in DOMAIN f \cup {id} |-> IF k = id THEN doc ELSE f[k]]

\* ---- handler bookkeeping ---------------------------------------------------
Request(op, a, b, name) == [op |-> op, a |-> a, b |-> b, name |-> name]

\* a handler whose only (or first) store access ends the request responds
Reply(op, status) ==
  /\ resp' = [op |-> op, status |-> status]
  /\ UNCHANGED req

\* the first access succeeded: the handler is suspended at its second await
Park(op, a, b, name) ==
  /\ Cardinality(req) < MaxInFlight
  /\ Request(op, a, b, name) \notin req
  /\ resp' = NoResp
  /\ req' = req \cup {Request(op, a, b, name)}

\* the second access of handler r ran and the handler responds
Finish(r, status) ==
  /\ resp' = [op |-> r.op, status |-> status]
  /\ req' = req \ {r}

\* ---- schema validation -----------------------------------------------------
\* document validation on User.create: required + match, username trimmed first
UserDocValid(body) ==
  /\ Has(body.username) /\ Trim(Val(body.username)) # << >>
  /\ Has(body.email) /\ EmailMatch(Val(body.email))

\* update validators (runValidators: true) on the paths the update sets
UserUpdateValid(body) ==
  /\ Has(body.username) => Trim(Val(body.username)) # << >>
  /\ Has(body.email) => EmailMatch(Val(body.email))

ThoughtDocValid(body) ==
  /\ Has(body.thoughtText) /\ TextValid(Val(body.thoughtText))
  /\ Has(body.username) /\ Val(body.username) # << >>

ThoughtUpdateValid(body) ==
  /\ Has(body.thoughtText) => TextValid(Val(body.thoughtText))
  /\ Has(body.username) => Val(body.username) # << >>

UniqueClash_UsernameOnly(self, name, email) ==
  \E k \in DOMAIN users \ {self} : users[k].username = name

\* the unique indexes of userSchema (username, email), excluding document `self`
UniqueClash(self, name, email) ==
  \E k \in DOMAIN users \ {self} : users[k].username = name \/ users[k].email = email

ByUsername_OrAll(name) ==
  IF \E k \in DOMAIN users : users[k].username = name
  THEN {k \in DOMAIN users : users[k].username = name}
  ELSE DOMAIN users

\* the user a { username } filter matches, as a set (the index makes it <= 1)
ByUsername(name) == {k \in DOMAIN users : users[k].username = name}

Init ==
  /\ users = << >>
  /\ thoughts = << >>
  /\ userIds = 0
  /\ thoughtIds = 0
  /\ req = {}
  /\ resp = NoResp

\* ---- User handlers ---------------------------------------------------------
\* app.get('/api/users/:userId')
GetUser(id, fail) ==
  /\ UNCHANGED <<users, thoughts, userIds, thoughtIds>>
  /\ IF id = BadId \/ fail
     THEN Reply("GetUser", 500)
     ELSE IF ~Present(id)
     THEN Reply("GetUser", 404)
     ELSE Reply("GetUser", 200)

\* app.post('/api/users')
CreateUser(body, fail) ==
  LET name == Trim(Val(body.username))
      doc == [username |-> name, email |-> Val(body.email),
              thoughts |-> IF Has(body.thoughts) THEN Val(body.thoughts) ELSE << >>,
              friends |-> IF Has(body.friends) THEN Val(body.friends) ELSE << >>]
      id == IF Has(body._id) THEN Val(body._id) ELSE userIds + 1
  IN /\ UNCHANGED <<thoughts, thoughtIds>>
     /\ IF ~UserDocValid(body) \/ id = BadId \/ fail
        THEN Reply("CreateUser", 400) /\ UNCHANGED <<users, userIds>>
        ELSE IF Present(id) \/ UniqueClash(BadId, name, Val(body.email))
        THEN Reply("CreateUser", 400) /\ UNCHANGED <<users, userIds>>
        ELSE /\ Has(body._id) \/ userIds < MaxUsers
             /\ users' = With(users, id, doc)
             /\ userIds' = IF Has(body._id) THEN userIds ELSE id
             /\ Reply("CreateUser", 200)

\* app.put('/api/users/:userId')
UpdateUser(id, body, fail) ==
  /\ UNCHANGED <<thoughts, userIds, thoughtIds>>
  /\ IF id = BadId \/ ~UserUpdateValid(body) \/ fail
     THEN Reply("UpdateUser", 400) /\ UNCHANGED users
     ELSE IF ~Present(id)
     THEN Reply("UpdateUser", 404) /\ UNCHANGED users
     ELSE LET old == users[id]
              doc == [username |-> IF Has(body.username) THEN Trim(Val(body.username))
                                   ELSE old.username,
                      email |-> IF Has(body.email) THEN Val(body.email) ELSE old.email,
                      thoughts |-> IF Has(body.thoughts) THEN Val(body.thoughts)
                                   ELSE old.thoughts,
                      friends |-> IF Has(body.friends) THEN Val(body.friends)
                                  ELSE old.friends]
          IN IF \/ Has(body._id) /\ Val(body._id) # id
                \/ UniqueClash(id, doc.username, doc.email)
             THEN Reply("UpdateUser", 400) /\ UNCHANGED users
             ELSE /\ users' = With(users, id, doc)
                  /\ Reply("UpdateUser", 200)

DeleteUser1_PullsFriends(id, fail) ==
  /\ UNCHANGED <<thoughts, userIds, thoughtIds>>
  /\ IF id = BadId \/ fail
     THEN Reply("DeleteUser", 500) /\ UNCHANGED users
     ELSE IF ~Present(id)
     THEN Reply("DeleteUser", 404) /\ UNCHANGED users
     ELSE /\ Park("DeleteUser", id, 0, users[id].username)
          /\ users' = [k \in DOMAIN users \ {id} |->
                         [users[k] EXCEPT !.friends = Pull(@, id)]]

\* app.delete('/api/users/:userId'): User.findByIdAndDelete
DeleteUser1(id, fail) ==
  /\ UNCHANGED <<thoughts, userIds, thoughtIds>>
  /\ IF id = BadId \/ fail
     THEN Reply("DeleteUser", 500) /\ UNCHANGED users
     ELSE IF ~Present(id)
     THEN Reply("DeleteUser", 404) /\ UNCHANGED users
     ELSE /\ Park("DeleteUser", id, 0, users[id].username)
          /\ users' = Without(users, id)

DeleteUser2_NoCascade(r, fail) ==
  /\ r.op = "DeleteUser"
  /\ UNCHANGED <<users, thoughts, userIds, thoughtIds>>
  /\ Finish(r, IF fail THEN 500 ELSE 200)

\* app.delete('/api/users/:userId'): Thought.deleteMany({ username })
DeleteUser2(r, fail) ==
  /\ r.op = "DeleteUser"
  /\ UNCHANGED <<users, userIds, thoughtIds>>
  /\ IF fail
     THEN Finish(r, 500) /\ UNCHANGED thoughts
     ELSE /\ thoughts' = [k \in {t \in DOMAIN thoughts : thoughts[t].username # r.name}
                            |-> thoughts[k]]
          /\ Finish(r, 200)

\* app.post('/api/users/:userId/friends/:friendId'): first findByIdAndUpdate
AddFriend1(a, b, fail) ==
  /\ UNCHANGED <<thoughts, userIds, thoughtIds>>
  /\ IF a = BadId \/ b = BadId \/ fail
     THEN Reply("AddFriend", 500) /\ UNCHANGED users
     ELSE IF ~Present(a)
     THEN Reply("AddFriend", 404) /\ UNCHANGED users
     ELSE /\ Park("AddFriend", a, b, << >>)
          /\ users' = [users EXCEPT ![a].friends = AddToSet(@, b)]

AddFriend2_SameUser(r, fail) ==
  /\ r.op = "AddFriend"
  /\ UNCHANGED <<thoughts, userIds, thoughtIds>>
  /\ IF fail
     THEN Finish(r, 500) /\ UNCHANGED users
     ELSE IF ~Present(r.b)
     THEN Finish(r, 404) /\ UNCHANGED users
     ELSE /\ users' = [users EXCEPT ![r.a].friends = AddToSet(@, r.a)]
          /\ Finish(r, 200)

\* app.post('/api/users/:userId/friends/:friendId'): second findByIdAndUpdate
AddFriend2(r, fail) ==
  /\ r.op = "AddFriend"
  /\ UNCHANGED <<thoughts, userIds, thoughtIds>>
  /\ IF fail
     THEN Finish(r, 500) /\ UNCHANGED users
     ELSE IF ~Present(r.b)
     THEN Finish(r, 404) /\ UNCHANGED users
     ELSE /\ users' = [users EXCEPT ![r.b].friends = AddToSet(@, r.a)]
          /\ Finish(r, 200)

\* app.delete('/api/users/:userId/friends/:friendId'): first findByIdAndUpdate
RemoveFriend1(a, b, fail) ==
  /\ UNCHANGED <<thoughts, userIds, thoughtIds>>
  /\ IF a = BadId \/ b = BadId \/ fail
     THEN Reply("RemoveFriend", 500) /\ UNCHANGED users
     ELSE IF ~Present(a)
     THEN Reply("RemoveFriend", 404) /\ UNCHANGED users
     ELSE /\ Park("RemoveFriend", a, b, << >>)
          /\ users' = [users EXCEPT ![a].friends = Pull(@, b)]

\* app.delete('/api/users/:userId/friends/:friendId'): second findByIdAndUpdate
RemoveFriend2(r, fail) ==
  /\ r.op = "RemoveFriend"
  /\ UNCHANGED <<thoughts, userIds, thoughtIds>>
  /\ IF fail
     THEN Finish(r, 500) /\ UNCHANGED users
     ELSE /\ users' = IF Present(r.b)
                      THEN [users EXCEPT ![r.b].friends = Pull(@, r.a)]
                      ELSE users
          /\ Finish(r, 200)

\* ---- Thought handlers ------------------------------------------------------
\* app.get('/api/thoughts/:thoughtId')
GetThought(id, fail) ==
  /\ UNCHANGED <<users, thoughts, userIds, thoughtIds>>
  /\ IF id = BadId \/ fail
     THEN Reply("GetThought", 500)
     ELSE IF ~PresentThought(id)
     THEN Reply("GetThought", 404)
     ELSE Reply("GetThought", 200)

CreateThought1_WritesThenFails(body, fail) ==
  LET id == IF Has(body._id) THEN Val(body._id) ELSE thoughtIds + 1
  IN /\ UNCHANGED <<users, userIds>>
     /\ IF ~ThoughtDocValid(body) \/ id = BadId \/ PresentThought(id)
        THEN Reply("CreateThought", 400) /\ UNCHANGED <<thoughts, thoughtIds>>
        ELSE /\ Has(body._id) \/ thoughtIds < MaxThoughts
             /\ thoughts' = With(thoughts, id,
                                 [username |-> Val(body.username),
                                  thoughtText |-> Val(body.thoughtText)])
             /\ thoughtIds' = IF Has(body._id) THEN thoughtIds ELSE id
             /\ IF fail THEN Reply("CreateThought", 400)
                ELSE Park("CreateThought", id, 0, Val(body.username))

\* app.post('/api/thoughts'): Thought.create
CreateThought1(body, fail) ==
  LET id == IF Has(body._id) THEN Val(body._id) ELSE thoughtIds + 1
  IN /\ UNCHANGED <<users, userIds>>
     /\ IF ~ThoughtDocValid(body) \/ id = BadId \/ fail
        THEN Reply("CreateThought", 400) /\ UNCHANGED <<thoughts, thoughtIds>>
        ELSE IF PresentThought(id)
        THEN Reply("CreateThought", 400) /\ UNCHANGED <<thoughts, thoughtIds>>
        ELSE /\ Has(body._id) \/ thoughtIds < MaxThoughts
             /\ thoughts' = With(thoughts, id,
                                 [username |-> Val(body.username),
                                  thoughtText |-> Val(body.thoughtText)])
             /\ thoughtIds' = IF Has(body._id) THEN thoughtIds ELSE id
             /\ Park("CreateThought", id, 0, Val(body.username))

CreateThought2_Rollback(r, fail) ==
  /\ r.op = "CreateThought"
  /\ UNCHANGED <<userIds, thoughtIds>>
  /\ IF fail
     THEN Finish(r, 400) /\ UNCHANGED users /\ thoughts' = Without(thoughts, r.a)
     ELSE /\ users' = [k \in DOMAIN users |->
                         IF k \in ByUsername(r.name)
                         THEN [users[k] EXCEPT !.thoughts = Push(@, r.a)]
                         ELSE users[k]]
          /\ UNCHANGED thoughts
          /\ Finish(r, 200)

\* app.post('/api/thoughts'): User.findOneAndUpdate({ username }, { $push })
CreateThought2(r, fail) ==
  /\ r.op = "CreateThought"
  /\ UNCHANGED <<thoughts, userIds, thoughtIds>>
  /\ IF fail
     THEN Finish(r, 400) /\ UNCHANGED users
     ELSE /\ users' = [k \in DOMAIN users |->
                         IF k \in ByUsername(r.name)
                         THEN [users[k] EXCEPT !.thoughts = Push(@, r.a)]
                         ELSE users[k]]
          /\ Finish(r, 200)

\* app.put('/api/thoughts/:thoughtId')
UpdateThought(id, body, fail) ==
  /\ UNCHANGED <<users, userIds, thoughtIds>>
  /\ IF id = BadId \/ ~ThoughtUpdateValid(body) \/ fail
     THEN Reply("UpdateThought", 400) /\ UNCHANGED thoughts
     ELSE IF ~PresentThought(id)
     THEN Reply("UpdateThought", 404) /\ UNCHANGED thoughts
     ELSE IF Has(body._id) /\ Val(body._id) # id
     THEN Reply("UpdateThought", 400) /\ UNCHANGED thoughts
     ELSE /\ thoughts' =
               [thoughts EXCEPT ![id] =
                  [username |-> IF Has(body.username) THEN Val(body.username)
                                ELSE @.username,
                   thoughtText |-> IF Has(body.thoughtText) THEN Val(body.thoughtText)
                                   ELSE @.thoughtText]]
          /\ Reply("UpdateThought", 200)

\* app.delete('/api/thoughts/:thoughtId'): Thought.findByIdAndDelete
DeleteThought1(id, fail) ==
  /\ UNCHANGED <<users, userIds, thoughtIds>>
  /\ IF id = BadId \/ fail
     THEN Reply("DeleteThought", 500) /\ UNCHANGED thoughts
     ELSE IF ~PresentThought(id)
     THEN Reply("DeleteThought", 404) /\ UNCHANGED thoughts
     ELSE /\ Park("DeleteThought", id, 0, thoughts[id].username)
          /\ thoughts' = Without(thoughts, id)

\* app.delete('/api/thoughts/:thoughtId'): User.findOneAndUpdate({ username }, { $pull })
DeleteThought2(r, fail) ==
  /\ r.op = "DeleteThought"
  /\ UNCHANGED <<thoughts, userIds, thoughtIds>>
  /\ IF fail
     THEN Finish(r, 500) /\ UNCHANGED users
     ELSE /\ users' = [k \in DOMAIN users |->
                         IF k \in ByUsername(r.name)
                         THEN [users[k] EXCEPT !.thoughts = Pull(@, r.a)]
                         ELSE users[k]]
          /\ Finish(r, 200)

\* ---- specifications --------------------------------------------------------
\* F: the outcomes of a store access (TRUE: it throws); Posts, Puts: the bodies
\* the clients send to POST and PUT /api/users.
UserRequests(F, Posts, Puts) ==
  \/ \E id \in UserIdParams, fail \in F : GetUser(id, fail)
  \/ \E body \in Posts, fail \in F : CreateUser(body, fail)
  \/ \E id \in UserIdParams, body \in Puts, fail \in F : UpdateUser(id, body, fail)
  \/ \E id \in UserIdParams, fail \in F : DeleteUser1(id, fail)

FriendRequests(F) ==
  \/ \E a \in UserIdParams, b \in UserIdParams, fail \in F : AddFriend1(a, b, fail)
  \/ \E a \in UserIdParams, b \in UserIdParams, fail \in F : RemoveFriend1(a, b, fail)

ThoughtRequests(F) ==
  \/ \E id \in ThoughtIdParams, fail \in F : GetThought(id, fail)
  \/ \E body \in ThoughtBodies, fail \in F : CreateThought1(body, fail)
  \/ \E id \in ThoughtIdParams, body \in ThoughtBodies, fail \in F :
       UpdateThought(id, body, fail)
  \/ \E id \in ThoughtIdParams, fail \in F : DeleteThought1(id, fail)

\* the second store access of a suspended handler
ResumeUsers(F) == \E r \in req, fail \in F : DeleteUser2(r, fail)

ResumeFriends(F) ==
  \/ \E r \in req, fail \in F : AddFriend2(r, fail)
  \/ \E r \in req, fail \in F : RemoveFriend2(r, fail)

ResumeThoughts(F) ==
  \/ \E r \in req, fail \in F : CreateThought2(r, fail)
  \/ \E r \in req, fail \in F : DeleteThought2(r, fail)

\* no handler is suspended: the next request runs with nothing interleaved
Quiet == req = {}

\* Users only: sign-ups and updates with every identity body.
NextUsers ==
  \/ UserRequests(BOOLEAN, IdentityBodies, IdentityBodies)
  \/ ResumeUsers(BOOLEAN)

SpecUsers == Init /\ [][NextUsers]_vars

\* Users and friendships, requests running concurrently.
NextFriends ==
  \/ UserRequests(BOOLEAN, SignUpBodies, RenameBodies)
  \/ FriendRequests(BOOLEAN)
  \/ ResumeUsers(BOOLEAN)
  \/ ResumeFriends(BOOLEAN)

SpecFriends == Init /\ [][NextFriends]_vars

\* Users and friendships, one request at a time.
NextFriendsSeq ==
  \/ Quiet /\ UserRequests(BOOLEAN, SignUpBodies, FriendsBodies)
  \/ Quiet /\ FriendRequests(BOOLEAN)
  \/ ResumeUsers(BOOLEAN)
  \/ ResumeFriends(BOOLEAN)

SpecFriendsSeq == Init /\ [][NextFriendsSeq]_vars

\* Sign-ups, then only AddFriend and RemoveFriend requests, running
\* concurrently on users that stay present, the store never failing.
NextFriendsRace ==
  \/ \E body \in SignUpBodies : CreateUser(body, FALSE)
  \/ FriendRequests({FALSE})
  \/ ResumeFriends({FALSE})

SpecFriendsRace == Init /\ [][NextFriendsRace]_vars

\* Users and thoughts, requests running concurrently.
NextThoughts ==
  \/ UserRequests(BOOLEAN, SignUpBodies, RenameBodies \cup ThoughtsBodies)
  \/ ThoughtRequests(BOOLEAN)
  \/ ResumeUsers(BOOLEAN)
  \/ ResumeThoughts(BOOLEAN)

SpecThoughts == Init /\ [][NextThoughts]_vars

\* Users and thoughts, one request at a time, the store never failing.
NextThoughtsSeq ==
  \/ Quiet /\ UserRequests({FALSE}, SignUpBodies, RenameBodies \cup ThoughtsBodies)
  \/ Quiet /\ ThoughtRequests({FALSE})
  \/ ResumeUsers({FALSE})
  \/ ResumeThoughts({FALSE})

SpecThoughtsSeq == Init /\ [][NextThoughtsSeq]_vars

\* Sign-ups first, then only CreateThought requests, running concurrently, the
\* store never failing.
NextThoughtsRace ==
  \/ thoughtIds = 0 /\ \E body \in SignUpBodies : CreateUser(body, FALSE)
  \/ \E body \in ThoughtBodies : CreateThought1(body, FALSE)
  \/ \E r \in req : CreateThought2(r, FALSE)

SpecThoughtsRace == Init /\ [][NextThoughtsRace]_vars

\* The handlers with two store accesses (and the sign-ups they need), one request
\* at a time, either access failing or not.
NextTwoStep ==
  \/ Quiet /\ \E body \in SignUpBodies : CreateUser(body, FALSE)
  \/ Quiet /\ \E id \in UserIdParams, fail \in BOOLEAN : DeleteUser1(id, fail)
  \/ Quiet /\ FriendRequests(BOOLEAN)
  \/ Quiet /\ \E body \in ThoughtBodies, fail \in BOOLEAN : CreateThought1(body, fail)
  \/ Quiet /\ \E id \in ThoughtIdParams, fail \in BOOLEAN : DeleteThought1(id, fail)
  \/ ResumeUsers(BOOLEAN)
  \/ ResumeFriends(BOOLEAN)
  \/ ResumeThoughts(BOOLEAN)

SpecTwoStep == Init /\ [][NextTwoStep]_vars

\* Users only, the sign-ups naming their own _id or leaving it to the store.
NextLifecycle ==
  \/ UserRequests(BOOLEAN, SignUpBodies \cup IdBodies, RenameBodies)
  \/ ResumeUsers(BOOLEAN)

SpecLifecycle == Init /\ [][NextLifecycle]_vars

\* every thoughts list is short enough to take another id (this keeps the lists
\* finite where clients reinsert Thoughts under ids that are still listed)
Roomy == \A u \in DOMAIN users : Len(users[u].thoughts) < MaxThoughts

\* Users and thoughts, one request at a time, the store never failing; a POST
\* /api/thoughts names its own _id or leaves it to the store, and no PUT
\* /api/users sets the thoughts path.
NextOwnership ==
  \/ Quiet /\ UserRequests({FALSE}, SignUpBodies, RenameBodies)
  \/ Quiet /\ \E id \in ThoughtIdParams : GetThought(id, FALSE)
  \/ Quiet /\ \E body \in ThoughtBodies : CreateThought1(body, FALSE)
  \/ Quiet /\ Roomy /\ \E body \in ThoughtIdBodies : CreateThought1(body, FALSE)
  \/ Quiet /\ \E id \in ThoughtIdParams, body \in ThoughtBodies :
                UpdateThought(id, body, FALSE)
  \/ Quiet /\ \E id \in ThoughtIdParams : DeleteThought1(id, FALSE)
  \/ ResumeUsers({FALSE})
  \/ ResumeThoughts({FALSE})

SpecOwnership == Init /\ [][NextOwnership]_vars

\* ---- friendships -----------------------------------------------------------
Lists(us, a, b) == a \in DOMAIN us /\ b \in Range(us[a].friends)
Mutual(us, a, b) == Lists(us, a, b) /\ Lists(us, b, a)
Apart(us, a, b) == ~Lists(us, a, b) /\ ~Lists(us, b, a)

\* the step is handler r's second access, for AddFriend(a, b) / RemoveFriend(a, b)
AddFriendEnds(a, b) ==
  \E r \in req \ req', fail \in BOOLEAN : r.a = a /\ r.b = b /\ AddFriend2(r, fail)
RemoveFriendEnds(a, b) ==
  \E r \in req \ req', fail \in BOOLEAN : r.a = a /\ r.b = b /\ RemoveFriend2(r, fail)
\* the step is RemoveFriend(a, b) responding, from its first or its second access
RemoveFriendReturns(a, b) ==
  /\ resp'.op = "RemoveFriend"
  /\ \/ \E fail \in BOOLEAN : RemoveFriend1(a, b, fail)
     \/ RemoveFriendEnds(a, b)

\* C1 as stated: run alone on existing users A and B, a successful AddFriend(A, B)
\* leaves each in the other's friends, and a RemoveFriend(A, B) that returns
\* (whatever it returns) leaves neither in the other's friends.
C1_Original ==
  [][\A a \in DOMAIN users, b \in DOMAIN users :
       /\ (AddFriendEnds(a, b) /\ resp'.status = 200) => Mutual(users', a, b)
       /\ RemoveFriendReturns(a, b) => Apart(users', a, b)]_vars

\* C1 amended: run alone on existing users A and B, a successful AddFriend(A, B)
\* leaves each in the other's friends, and a RemoveFriend(A, B) that returns
\* success leaves neither in the other's friends.
C1_FriendSymmetry ==
  [][\A a \in DOMAIN users, b \in DOMAIN users :
       /\ (AddFriendEnds(a, b) /\ resp'.status = 200) => Mutual(users', a, b)
       /\ (RemoveFriendReturns(a, b) /\ resp'.status = 200) => Apart(users', a, b)]_vars

\* two distinct users are friends of each other right after an AddFriend succeeded
C1_Witness ==
  /\ resp = [op |-> "AddFriend", status |-> 200]
  /\ \E a \in DOMAIN users, b \in DOMAIN users : a # b /\ Mutual(users, a, b)

\* C2 as stated: whenever no request is in flight, every id in a present User's
\* friends is the id of a present User.
C2_Original ==
  Quiet => \A u \in DOMAIN users : \A f \in Range(users[u].friends) : Present(f)

\* C3 as stated: once all of the concurrently running AddFriend and RemoveFriend
\* requests have completed, B is in A's friends iff A is in B's friends, for all
\* present users A and B.
C3_Original ==
  Quiet => \A a \in DOMAIN users, b \in DOMAIN users :
             Lists(users, a, b) <=> Lists(users, b, a)

\* ---- thoughts --------------------------------------------------------------
\* the step is the second access of handler r, the store not failing
DeleteUserEnds(r) == r.op = "DeleteUser" /\ r \notin req' /\ DeleteUser2(r, FALSE)
CreateThoughtEnds(r) == r.op = "CreateThought" /\ r \notin req' /\ CreateThought2(r, FALSE)

\* C4: in the state in which a successful DeleteUser(U) completes, whatever ran
\* concurrently, no Thought carries the username U had when it was removed: each
\* Thought that carried it is absent (a GetThought on it finds nothing).
C4_CascadeOnDelete ==
  [][\A r \in req :
       DeleteUserEnds(r) =>
         /\ resp' = [op |-> "DeleteUser", status |-> 200]
         /\ \A t \in DOMAIN thoughts' : thoughts'[t].username # r.name
         /\ \A t \in DOMAIN thoughts :
              thoughts[t].username = r.name => t \notin DOMAIN thoughts']_vars

\* a DeleteUser has just succeeded while a CreateThought is still suspended, and
\* the cascade has removed the Thought that CreateThought had inserted
C4_Witness ==
  /\ resp = [op |-> "DeleteUser", status |-> 200]
  /\ \E r \in req : r.op = "CreateThought" /\ ~PresentThought(r.a)

\* the step leaves Thought t listed exactly once by user u
KeepsOnce(u, t) ==
  (/\ u \in DOMAIN users /\ u \in DOMAIN users'
   /\ t \in DOMAIN thoughts /\ t \in DOMAIN thoughts'
   /\ Count(users[u].thoughts, t) = 1)
  => Count(users'[u].thoughts, t) = 1

\* the step is a successful PUT /api/users/u whose body sets the thoughts path
OverwritesThoughts(u) ==
  \E body \in ThoughtsBodies : Has(body.thoughts) /\ UpdateUser(u, body, FALSE)

\* a successful CreateThought appends the new id once to the user of that name
AppendsOnce ==
  \A r \in req :
    CreateThoughtEnds(r) =>
      \A u \in DOMAIN users' :
        users'[u].username = r.name => Count(users'[u].thoughts, r.a) = 1

C6_Original ==
  Quiet => \A u \in DOMAIN users : \A t \in Range(users[u].thoughts) :
             PresentThought(t) /\ thoughts[t].username = users[u].username

\* ---- users -----------------------------------------------------------------
\* the body names a username or an email that a present User has
Taken(body) ==
  \/ Has(body.username) /\
       \E k \in DOMAIN users :
         users[k].username \in {Val(body.username), Trim(Val(body.username))}
  \/ Has(body.email) /\ \E k \in DOMAIN users : users[k].email = Val(body.email)

\* C7: no two present Users share a username or an email, and a CreateUser whose
\* username or email is a present User's fails with 400 and changes neither
\* collection.
C7_Uniqueness ==
  /\ [](\A j \in DOMAIN users, k \in DOMAIN users :
          j # k => /\ users[j].username # users[k].username
                   /\ users[j].email # users[k].email)
  /\ [][\A body \in IdentityBodies, fail \in BOOLEAN :
          (Taken(body) /\ CreateUser(body, fail)) =>
             /\ resp' = [op |-> "CreateUser", status |-> 400]
             /\ users' = users /\ thoughts' = thoughts]_vars

\* two users are present and a CreateUser has just been refused
C7_Witness ==
  /\ Cardinality(DOMAIN users) = 2
  /\ resp = [op |-> "CreateUser", status |-> 400]

\* ---- AddFriend -------------------------------------------------------------
NoRepeats(us) == \A u \in DOMAIN us : \A f \in Range(us[u].friends) : Count(us[u].friends, f) = 1

\* the step is a store access of AddFriend(a, b)
AddFriendStep(a, b) ==
  \/ (resp'.op = "AddFriend" \/ req' # req) /\ \E fail \in BOOLEAN : AddFriend1(a, b, fail)
  \/ AddFriendEnds(a, b)

\* AddFriend(A, B) run where A and B already list each other changes no document
Idempotent ==
  users' # users =>
    \A a \in DOMAIN users, b \in DOMAIN users : ~(Mutual(users, a, b) /\ AddFriendStep(a, b))

C9_Original ==
  [][users' # users =>
       \A a \in UserIdParams, b \in UserIdParams :
         AddFriendStep(a, b) => Present(a) /\ Present(b)]_vars

\* ---- not found -------------------------------------------------------------
\* the step is a Get, Update or Delete of User id / of Thought id
UserLookup(id) ==
  \/ GetUser(id, FALSE)
  \/ \E body \in RenameBodies \cup ThoughtsBodies : UpdateUser(id, body, FALSE)
  \/ DeleteUser1(id, FALSE)
ThoughtLookup(id) ==
  \/ GetThought(id, FALSE)
  \/ \E body \in ThoughtBodies : UpdateThought(id, body, FALSE)
  \/ DeleteThought1(id, FALSE)

\* C10 as stated: a Get, Update or Delete whose id identifies no present entity
\* returns 404 and leaves both collections unchanged.
C10_Original ==
  [][/\ \A id \in UserIdParams :
          (~Present(id) /\ UserLookup(id)) =>
             resp'.status = 404 /\ users' = users /\ thoughts' = thoughts
     /\ \A id \in ThoughtIdParams :
          (~PresentThought(id) /\ ThoughtLookup(id)) =>
             resp'.status = 404 /\ users' = users /\ thoughts' = thoughts]_vars

\* ---- error kinds -----------------------------------------------------------
\* the step is a store access that throws, in a request that is valid otherwise
\* (well-formed id, body that passes validation, no clash with a unique index)
StoreFailure ==
  /\ resp'.op # "none"
  /\ \/ \E id \in 1..userIds : GetUser(id, TRUE)
     \/ \E body \in SignUpBodies :
          /\ UserDocValid(body)
          /\ ~UniqueClash(BadId, Trim(Val(body.username)), Val(body.email))
          /\ CreateUser(body, TRUE)
     \/ \E id \in 1..userIds, body \in RenameBodies \cup ThoughtsBodies :
          UserUpdateValid(body) /\ UpdateUser(id, body, TRUE)
     \/ \E id \in 1..userIds : DeleteUser1(id, TRUE)
     \/ \E r \in req \ req' : DeleteUser2(r, TRUE)
     \/ \E id \in 1..thoughtIds : GetThought(id, TRUE)
     \/ \E body \in ThoughtBodies : ThoughtDocValid(body) /\ CreateThought1(body, TRUE)
     \/ \E r \in req \ req' : CreateThought2(r, TRUE)
     \/ \E id \in 1..thoughtIds, body \in ThoughtBodies :
          ThoughtUpdateValid(body) /\ UpdateThought(id, body, TRUE)
     \/ \E id \in 1..thoughtIds : DeleteThought1(id, TRUE)
     \/ \E r \in req \ req' : DeleteThought2(r, TRUE)

\* C11 as stated: in every handler a failure of the store on any store access,
\* the request being valid otherwise, is reported as 500 (never as 400).
C11_Original == [][StoreFailure => resp'.status = 500]_vars

\* ---- RemoveFriend ----------------------------------------------------------
\* the step is a store access of RemoveFriend(a, b)
RemoveFriendStep(a, b) ==
  \/ (resp'.op = "RemoveFriend" \/ req' # req) /\
       \E fail \in BOOLEAN : RemoveFriend1(a, b, fail)
  \/ RemoveFriendEnds(a, b)

\* the step is a store access of RemoveFriend(a, b) that does not throw
RemoveFriendWorks(a, b) ==
  \/ req' # req /\ RemoveFriend1(a, b, FALSE)
  \/ \E r \in req \ req' : r.a = a /\ r.b = b /\ RemoveFriend2(r, FALSE)

\* C12: for present users A and B neither of whom lists the other, RemoveFriend(A, B)
\* run alone signals no error (no response other than 200, unless a store access
\* throws: then 500) and none of its steps changes a User document or a Thought.
C12_RemoveNonFriend ==
  [][\A a \in DOMAIN users, b \in DOMAIN users :
       Apart(users, a, b) =>
         /\ RemoveFriendStep(a, b) =>
              /\ users' = users /\ thoughts' = thoughts
              /\ resp'.status \in {0, 200, 500}
         /\ RemoveFriendWorks(a, b) => resp'.status \in {0, 200}]_vars

\* a RemoveFriend has just returned success for two users, each of whom lists
\* somebody, but not the other
C12_Witness ==
  /\ resp = [op |-> "RemoveFriend", status |-> 200]
  /\ \E a \in DOMAIN users, b \in DOMAIN users :
       /\ a # b /\ Apart(users, a, b)
       /\ users[a].friends # << >> /\ users[b].friends # << >>

\* ---- CreateThought ---------------------------------------------------------
\* no present User has this username
NoUserNamed(name) == \A k \in DOMAIN users : users[k].username # name

\* C13: a valid CreateThought whose username is the username of no present User,
\* run alone, returns success, the new Thought is present afterwards, and no User
\* document (thoughts list, friends set) is changed by either of its steps.
C13_OrphanThought ==
  [][/\ \A body \in ThoughtBodies :
          (/\ ThoughtDocValid(body) /\ NoUserNamed(Val(body.username))
           /\ req' # req /\ CreateThought1(body, FALSE)) =>
             /\ users' = users
             /\ thoughtIds' \in DOMAIN thoughts' \ DOMAIN thoughts
     /\ \A r \in req \ req' :
          (NoUserNamed(r.name) /\ CreateThoughtEnds(r)) =>
             /\ resp' = [op |-> "CreateThought", status |-> 200]
             /\ r.a \in DOMAIN thoughts' /\ thoughts'[r.a].username = r.name
             /\ users' = users]_vars

\* a CreateThought has just succeeded, the newest Thought is present and carries
\* the username of no present User, while a present User lists another Thought
C13_Witness ==
  /\ resp = [op |-> "CreateThought", status |-> 200]
  /\ PresentThought(thoughtIds)
  /\ NoUserNamed(thoughts[thoughtIds].username)
  /\ \E u \in DOMAIN users : users[u].thoughts # << >>

\* the CreateThought request that inserted Thought t has completed
Completed(t) == \A r \in req : r.a # t

\* C14: for CreateThought requests for the same present user U whose store writes
\* interleave in any order, each append adds the new id behind what the list
\* holds, and once a request has completed U's thoughts holds its id exactly once:
\* with both completed, both ids, each once (no append is lost).
C14_ConcurrentCreate ==
  /\ [](\A u \in DOMAIN users, t \in DOMAIN thoughts :
          (thoughts[t].username = users[u].username /\ Completed(t)) =>
             Count(users[u].thoughts, t) = 1)
  /\ [][\A r \in req \ req', u \in DOMAIN users :
          users[u].username = r.name =>
             users'[u].thoughts = Append(users[u].thoughts, r.a)]_vars

\* both requests have completed and U lists the second Thought before the first:
\* the appends landed in the order opposite to the inserts
C14_Witness ==
  /\ Quiet
  /\ \E u \in DOMAIN users :
       /\ users[u].thoughts = <<2, 1>>
       /\ thoughts[1].username = users[u].username
       /\ thoughts[2].username = users[u].username

\* the other order: U lists the two Thoughts in the order of their inserts
C14_InOrder ==
  /\ Quiet
  /\ \E u \in DOMAIN users : users[u].thoughts = <<1, 2>>

\* ---- handlers with two store accesses --------------------------------------
\* the step is the second access of handler r, and it throws
SecondFails(r) ==
  \/ DeleteUser2(r, TRUE)
  \/ AddFriend2(r, TRUE)
  \/ RemoveFriend2(r, TRUE)
  \/ CreateThought2(r, TRUE)
  \/ DeleteThought2(r, TRUE)

\* the effect of the first write of handler r is in the store
FirstWriteIn(r, us, ths) ==
  /\ r.op = "CreateThought" => r.a \in DOMAIN ths /\ ths[r.a].username = r.name
  /\ r.op = "DeleteThought" => r.a \notin DOMAIN ths
  /\ r.op = "DeleteUser" => r.a \notin DOMAIN us
  /\ r.op = "AddFriend" => r.a \in DOMAIN us /\ r.b \in Range(us[r.a].friends)
  /\ r.op = "RemoveFriend" => r.a \in DOMAIN us /\ r.b \notin Range(us[r.a].friends)

\* C15: in CreateThought, DeleteThought, DeleteUser, AddFriend and RemoveFriend,
\* when the first write succeeded and the second access fails, the request
\* reports an error, the effect of the first write is in the store afterwards,
\* and the handler ends there: the failing step writes nothing (no compensation)
\* and leaves no access of the request pending (no retry).
C15_NoRollback ==
  [][\A r \in req \ req' :
       SecondFails(r) =>
         /\ resp'.op = r.op /\ resp'.status \in {400, 500}
         /\ users' = users /\ thoughts' = thoughts
         /\ FirstWriteIn(r, users', thoughts')
         /\ req' = {}]_vars

\* a CreateThought has just reported an error although its Thought is in the
\* store, and the present User of that username does not list it
C15_Witness ==
  /\ resp = [op |-> "CreateThought", status |-> 400]
  /\ Quiet
  /\ PresentThought(thoughtIds)
  /\ \E u \in DOMAIN users :
       /\ users[u].username = thoughts[thoughtIds].username
       /\ thoughtIds \notin Range(users[u].thoughts)

TwoStepOps == {"DeleteUser", "AddFriend", "RemoveFriend", "CreateThought", "DeleteThought"}

\* the step is the first access of a two-step handler and it ends the request:
\* the access threw, the body was rejected, or no entity was found
FirstEnds == Quiet /\ resp'.op \in TwoStepOps

\* C16: in CreateThought, DeleteThought, DeleteUser, AddFriend and RemoveFriend
\* the second access is pending only once the first write is in the store; when
\* the first access fails, is rejected by validation or finds no entity, no second
\* access is issued and the store is exactly as it was before the request.
C16_FailFast ==
  /\ [](\A r \in req : r.op \in TwoStepOps /\ FirstWriteIn(r, users, thoughts))
  /\ [][FirstEnds =>
          /\ resp'.status \in {400, 404, 500}
          /\ req' = {}
          /\ users' = users /\ thoughts' = thoughts
          /\ userIds' = userIds /\ thoughtIds' = thoughtIds]_vars

\* a DeleteThought has just found no Thought (the only one was deleted before)
\* while the User of its username still lists it and another Thought is present
C16_Witness ==
  /\ resp = [op |-> "DeleteThought", status |-> 404]
  /\ Quiet
  /\ thoughtIds = 2 /\ DOMAIN thoughts = {2}
  /\ \E u \in DOMAIN users : 1 \in Range(users[u].thoughts)

\* ---- entity lifecycle ------------------------------------------------------
\* the entities that are present, and those that were and are not any more
Gone(ids, f) == (1..ids) \ DOMAIN f

\* C17 as stated: a User or Thought becomes present only through a successful
\* Create of it and absent only through a successful Delete of it, no Update
\* changes which entities are present, and an identifier that has become absent
\* never becomes present again.
C17_Original ==
  [][/\ \A id \in DOMAIN users' \ DOMAIN users :
          resp' = [op |-> "CreateUser", status |-> 200]
     /\ \A id \in DOMAIN users \ DOMAIN users' : DeleteUser1(id, FALSE)
     /\ \A id \in DOMAIN thoughts' \ DOMAIN thoughts :
          \E body \in ThoughtBodies : CreateThought1(body, FALSE)
     /\ \A id \in DOMAIN thoughts \ DOMAIN thoughts' : DeleteThought1(id, FALSE)
     /\ resp'.op \in {"UpdateUser", "UpdateThought"} =>
          DOMAIN users' = DOMAIN users /\ DOMAIN thoughts' = DOMAIN thoughts
     /\ Gone(userIds, users) \subseteq Gone(userIds', users')
     /\ Gone(thoughtIds, thoughts) \subseteq Gone(thoughtIds', thoughts')]_vars

\* ---- ownership of thought references ---------------------------------------
\* how often the thoughts lists of the present Users hold Thought id t
RECURSIVE Listed(_, _)
Listed(us, t) ==
  IF us = {} THEN 0
  ELSE LET u == CHOOSE k \in us : TRUE
       IN Count(users[u].thoughts, t) + Listed(us \ {u}, t)

\* C18 as stated: no PUT /api/users setting the thoughts path, each Thought id
\* occurs in the thoughts list of at most one User and at most once in it.
C18_Original == \A t \in 1..thoughtIds : Listed(DOMAIN users, t) <= 1

\* ---- DeleteUser ------------------------------------------------------------
\* C19: a successful DeleteUser(U) removes only U's document, in its first step,
\* and only the Thoughts whose username is U's, in its second; every other User
\* document is left as it is, so a User that listed U as a friend still does.
C19_DeleteUserFrame ==
  [][/\ \A id \in DOMAIN users :
          (req' # req /\ DeleteUser1(id, FALSE)) =>
             /\ DOMAIN users' = DOMAIN users \ {id}
             /\ \A v \in DOMAIN users' : users'[v] = users[v]
             /\ thoughts' = thoughts
     /\ \A r \in req \ req' :
          DeleteUserEnds(r) =>
             /\ resp' = [op |-> "DeleteUser", status |-> 200]
             /\ users' = users
             /\ DOMAIN thoughts' = {t \in DOMAIN thoughts : thoughts[t].username # r.name}
             /\ \A t \in DOMAIN thoughts' : thoughts'[t] = thoughts[t]]_vars

\* a DeleteUser has just succeeded, a present User still lists the id of an absent
\* User, and a Thought of another username is still present
C19_Witness ==
  /\ resp = [op |-> "DeleteUser", status |-> 200]
  /\ Quiet
  /\ \E v \in DOMAIN users : \E f \in Range(users[v].friends) :
       f # v /\ ~Present(f)
  /\ thoughts # << >>

\* ---- RemoveFriend, not found -----------------------------------------------
\* C20 as stated: the store not failing, RemoveFriend(userId, friendId) returns
\* 404 exactly when userId identifies no present User, and then writes nothing;
\* when userId is present and friendId is not, it returns success, friendId being
\* removed from userId's friends.
C20_Original ==
  [][\A a \in UserIdParams, b \in UserIdParams :
       /\ ((resp'.op = "RemoveFriend" \/ req' # req) /\ RemoveFriend1(a, b, FALSE)) =>
            /\ ~Present(a) <=> resp'.status = 404
            /\ ~Present(a) => users' = users
            /\ (Present(a) /\ ~Present(b)) =>
                 /\ resp'.status \in {0, 200}
                 /\ b \notin Range(users'[a].friends)
       /\ (\E r \in req \ req' : r.a = a /\ r.b = b /\ RemoveFriend2(r, FALSE)) =>
            resp'.status = 200]_vars
====
